---- MODULE Spec2Model ----
(***************************************************************************)
(* ZinvoltClient (src/src/zinvolt/zinvolt.py) as a state machine.          *)
(*                                                                         *)
(* The state is the client object (token, session, _close_session), the   *)
(* sessions the client has created and closed, and the coroutines of the  *)
(* caller's tasks, each at its position in a client method:               *)
(*   idle      no call running                                             *)
(*   awaiting  suspended in `await self.session.request(...)`, inside      *)
(*             `async with asyncio.timeout(self.request_timeout)`          *)
(*   reading   suspended in `await response.text()`, after the timeout     *)
(*             scope has been left                                         *)
(*   done      the call has returned or raised, and the task that awaited  *)
(*             it has not yet gone on                                      *)
(* asyncio runs one coroutine at a time and switches only at an await, so  *)
(* the code between two awaits is one action.                              *)
(***************************************************************************)
EXTENDS Integers, FiniteSets, Sequences, TLC

\* ------------------------------------------------------------ bounds
\* Calls the caller's tasks start over the life of the client.
MaxCalls == 3

\* ------------------------------------------------------------ constants
VERSION == "1"
HOST == "app.zinvolt.com"

\* tests/const.py
TEST_URL == "https://eva-backoffice.onmoonly.app/api/public/v2/"

METH_GET == "GET"
METH_POST == "POST"
METH_PUT == "PUT"

\* Python's None, for the str | None fields.
NONE == "<None>"
\* A key a JSON object does not hold.
MISSING == "<missing>"

\* models.py: the members of the two string enums.
OnlineStatus == {"ONLINE", "OFFLINE"}
SmartMode == {"DYNAMIC", "CHARGED", "PERFORMANCE"}

\* The coroutine methods of class ZinvoltClient in zinvolt.py.
Methods ==
    {"login", "get_batteries", "get_battery_status", "is_battery_online",
     "get_photovoltaic_data", "get_global_settings", "get_custom_modes",
     "get_battery_unit", "set_smart_mode", "close", "__aexit__"}

\* The setters tests/test_zinvolt.py calls through getattr(client, method).
\* zinvolt.py holds no definition of them: they are modelled from the
\* specification's section 4.2 (SetterUri, SetterKey, SetterData), on top of
\* _post and _request, which are modelled from the code.
Setters ==
    {"set_max_output", "set_lower_threshold", "set_upper_threshold",
     "set_standby_time"}

AllOps == Methods \cup Setters

ReadOps ==
    {"get_batteries", "get_battery_status", "is_battery_online",
     "get_photovoltaic_data", "get_global_settings", "get_custom_modes",
     "get_battery_unit"}

CloseOps == {"close", "__aexit__"}

\* ------------------------------------------------------------ inputs
\* The caller's tasks.  t1 runs any operation; t2 is a second task that logs in,
\* polls and closes while t1's call is suspended.
Tasks == {"t1", "t2"}
BatteryIds == {"123123", "456456"}
SerialNumbers == {"abc123"}
CustomIds == {"custom-id-123"}
Values == {500}
\* Tokens a caller constructs the client with, and tokens a login response holds.
InitTokens == {NONE, "", "token"}
LoginTokens == {"", "T"}

NoArgs == [battery_id |-> "", value |-> "", is_enum |-> FALSE, n |-> 0]

\* The arguments a caller may pass to each operation.  smart_mode is a
\* SmartMode member (is_enum) or a plain str.
ArgsOf(op) ==
    CASE op \in {"get_battery_status", "is_battery_online", "get_photovoltaic_data",
                 "get_global_settings", "get_custom_modes"} ->
            {[NoArgs EXCEPT !.battery_id = b] : b \in BatteryIds}
      [] op = "get_battery_unit" ->
            {[NoArgs EXCEPT !.battery_id = b, !.value = s] :
                b \in BatteryIds, s \in SerialNumbers}
      [] op = "set_smart_mode" ->
            {[NoArgs EXCEPT !.battery_id = b, !.value = m, !.is_enum = TRUE] :
                b \in BatteryIds, m \in SmartMode}
            \cup {[NoArgs EXCEPT !.battery_id = b, !.value = s] :
                b \in BatteryIds, s \in CustomIds}
      [] op \in Setters ->
            {[NoArgs EXCEPT !.battery_id = b, !.n = v] :
                b \in BatteryIds, v \in Values}
      [] OTHER -> {NoArgs}

\* ------------------------------------------------------------ requests
\* A Python dict is a function from its keys; {} is the empty function.
EmptyDict == [k \in {} |-> ""]

\* d1 | d2
Merge(d1, d2) ==
    [k \in DOMAIN d1 \cup DOMAIN d2 |-> IF k \in DOMAIN d2 THEN d2[k] ELSE d1[k]]

\* bool(self.token)
Truthy(tok) == tok # NONE /\ tok # ""

\* mutant: the Authorization header is added whenever the token is not None
base_headers_not_none(tok) ==
    IF tok # NONE
    THEN [k \in {"User-Agent", "Authorization"} |->
            IF k = "User-Agent" THEN "python-zinvolt/" \o VERSION ELSE "Bearer " \o tok]
    ELSE [k \in {"User-Agent"} |-> "python-zinvolt/" \o VERSION]

\* _request: base_headers
base_headers(tok) ==
    IF Truthy(tok)
    THEN [k \in {"User-Agent", "Authorization"} |->
            IF k = "User-Agent" THEN "python-zinvolt/" \o VERSION ELSE "Bearer " \o tok]
    ELSE [k \in {"User-Agent"} |-> "python-zinvolt/" \o VERSION]

\* URL.build(host=HOST, scheme="https").joinpath(f"api/public/v2/{uri}")
BuildUrl(uri) == "https://" \o HOST \o "/" \o "api/public/v2/" \o uri

\* Specification 4.2: the setters POST to the global-settings endpoint.
SetterUri(args) == "system/" \o args.battery_id \o "/configuration/global-settings"

\* Specification 4.2: the wire field each setter writes.
SetterKey(op) ==
    CASE op = "set_max_output" -> "max_output"
      [] op = "set_lower_threshold" -> "bat_use_cap"
      [] op = "set_upper_threshold" -> "max_charge_power"
      [] op = "set_standby_time" -> "standby_time"

\* Specification 4.2: a single-key JSON body.
SetterData(op, args) == [k \in {SetterKey(op)} |-> args.n]

\* The uri each method passes to _get / _put / _post.
Uri(op, args) ==
    CASE op = "login" -> "login"
      [] op = "get_batteries" -> "system/batteries"
      [] op = "get_battery_status" ->
            "system/" \o args.battery_id \o "/basic/current-state"
      [] op = "is_battery_online" ->
            "system/" \o args.battery_id \o "/basic/online-status"
      [] op = "get_photovoltaic_data" ->
            "system/" \o args.battery_id \o "/basic/pv-data"
      [] op = "get_global_settings" ->
            "system/" \o args.battery_id \o "/configuration/global-settings"
      [] op = "get_custom_modes" ->
            "system/" \o args.battery_id \o "/custom-mode"
      [] op = "get_battery_unit" ->
            "system/" \o args.battery_id \o "/unit/battery/" \o args.value
      [] op = "set_smart_mode" ->
            "system/" \o args.battery_id \o "/operation/switch-smart-mode"
      [] op \in Setters -> SetterUri(args)

\* The helper each method calls.
Helper(op) ==
    CASE op = "login" -> "_post"
      [] op = "set_smart_mode" -> "_put"
      [] op \in Setters -> "_post"
      [] OTHER -> "_get"

\* mutant: the helper does not pass method=, so _request's default applies
HttpMethod_default(helper) == METH_GET

\* _get / _put / _post: the method= each passes to _request
HttpMethod(helper) ==
    CASE helper = "_get" -> METH_GET
      [] helper = "_put" -> METH_PUT
      [] helper = "_post" -> METH_POST

\* set_smart_mode evaluates SmartMode.CUSTOM for a smart_mode that is no
\* SmartMode member; the attribute lookup raises when the enum has no such member.
SmartModeRaises(args) == ~args.is_enum /\ "CUSTOM" \notin SmartMode

\* The data each method passes to its helper, which _request passes on as
\* json=: a set holding the dict, or {} for json=None (_get passes no data).
Data(op, args) ==
    CASE op = "login" -> {[email |-> "test@test.com", password |-> "abc"]}
      [] op = "set_smart_mode" ->
            IF ~args.is_enum
            THEN {[custom_mode_id |-> args.value, mode |-> "CUSTOM"]}
            ELSE {[mode |-> args.value]}
      [] op \in Setters -> {SetterData(op, args)}
      [] OTHER -> {}

\* What _request hands to self.session.request, and the session it hands it to.
Request(op, args, tok, sess) ==
    [method |-> HttpMethod(Helper(op)),
     url |-> BuildUrl(Uri(op, args)),
     headers |-> Merge(base_headers(tok), EmptyDict),
     json |-> Data(op, args),
     session |-> sess]

\* ------------------------------------------------------------ responses
\* The text of a response body: whether it parses as JSON, and what the object
\* holds under the keys the client reads.  valid: the object matches the
\* dataclass the operation decodes it into.
Body(w, tok, sn, st, v) ==
    [wellformed |-> w, token |-> tok, sn |-> sn, onlineStatus |-> st, valid |-> v]

Malformed == Body(FALSE, MISSING, MISSING, MISSING, FALSE)

BodiesOf(op) ==
    CASE op = "login" ->
            {Malformed}
            \cup {Body(TRUE, k, MISSING, MISSING, TRUE) :
                    k \in LoginTokens \cup {MISSING, NONE}}
      [] op = "is_battery_online" ->
            {Malformed}
            \cup {Body(TRUE, MISSING, sn, st, TRUE) :
                    sn \in {MISSING, "SN1"},
                    st \in OnlineStatus \cup {MISSING, "UNKNOWN"}}
      [] OTHER -> {Malformed} \cup {Body(TRUE, MISSING, MISSING, MISSING, v) : v \in BOOLEAN}

Raised(exc) == [outcome |-> exc, result |-> "None"]
Returned(val) == [outcome |-> "ok", result |-> val]

\* OnlineStatusResponse.from_json: both fields are required and onlineStatus
\* must be a member of OnlineStatus.
OnlineStatusResponseDecodes(body) ==
    /\ body.wellformed
    /\ body.sn # MISSING
    /\ body.onlineStatus \in OnlineStatus

\* mutant: anything that is not OFFLINE counts as online
is_battery_online_lenient(body) ==
    IF body.wellformed /\ body.onlineStatus # "OFFLINE"
    THEN Returned("True")
    ELSE Returned("False")

\* is_battery_online, after the request
is_battery_online(body) ==
    IF OnlineStatusResponseDecodes(body)
    THEN Returned(IF body.onlineStatus = "ONLINE" THEN "True" ELSE "False")
    ELSE Raised("DecodeError")

\* login, after the request: orjson.loads(result)["token"]
login(body) ==
    IF ~body.wellformed THEN Raised("DecodeError")
    ELSE IF body.token = MISSING THEN Raised("KeyError")
    ELSE Returned(body.token)

\* What each method does with the text _request returned.  A method that
\* decodes into a dataclass returns the record when the text matches the
\* dataclass and raises otherwise; models.py does not define CustomMode and
\* BatteryUnit, whose decoding is this same case.
Decode(op, body) ==
    CASE op = "login" -> login(body)
      [] op = "is_battery_online" -> is_battery_online(body)
      [] op = "set_smart_mode" -> Returned("None")
      [] op \in Setters -> Returned("None")
      [] OTHER ->
            IF body.wellformed /\ body.valid
            THEN Returned("decoded")
            ELSE Raised("DecodeError")

\* ------------------------------------------------------------ state
VARIABLES
    token,          \* self.token
    session,        \* self.session: NONE, the caller's session, or one the client made
    close_session,  \* self._close_session
    created,        \* how many times the client has run ClientSession()
    closed,         \* the sessions the client has called close() on
    calls,          \* each task's running or last call
    started         \* calls started so far

vars == <<token, session, close_session, created, closed, calls, started>>

CALLER_SESSION == "caller"
NewSession(n) == "own" \o ToString(n)

NoRequest == {}
NoResponse == {}

\* A task's call: where its coroutine is, the request it has handed to the
\* session (while that is pending), the response body on its way (while
\* response.text() is pending), how often it has called session.request,
\* whether request_timeout has passed since the request began, and what the
\* call raised or returned.
Idle ==
    [pc |-> "idle", op |-> "", args |-> NoArgs, req |-> NoRequest,
     resp |-> NoResponse, nreq |-> 0, elapsed |-> FALSE, outcome |-> "",
     result |-> "None"]

InFlight(t) == calls[t].pc \in {"awaiting", "reading"}

\* A finished call: what it raised or returned.
Finish(c, r) ==
    [c EXCEPT !.pc = "done", !.args = NoArgs, !.req = NoRequest, !.resp = NoResponse,
              !.outcome = r.outcome, !.result = r.result]

\* ZinvoltClient(token, session=session): the dataclass defaults, with the
\* token and the session the caller may pass.
Init ==
    /\ token \in InitTokens
    /\ session \in {NONE, CALLER_SESSION}
    /\ close_session = FALSE
    /\ created = 0
    /\ closed = {}
    /\ calls = [t \in Tasks |-> Idle]
    /\ started = 0

CanStart(t) == calls[t].pc = "idle" /\ started < MaxCalls

NewCall(op, args) == [Idle EXCEPT !.op = op, !.args = args]

\* ------------------------------------------------------------ actions
\* mutant: close() closes whatever session the client holds
ShouldClose_any(sess, flag) == sess # NONE

\* close: `if self.session and self._close_session`
ShouldClose(sess, flag) == sess # NONE /\ flag

\* close() and __aexit__(), which awaits close().  ClientSession.close() on a
\* closed session does nothing.
Close(t, op) ==
    /\ CanStart(t)
    /\ op \in CloseOps
    /\ closed' = IF ShouldClose(session, close_session) THEN closed \cup {session} ELSE closed
    /\ calls' = [calls EXCEPT ![t] = Finish(NewCall(op, NoArgs), Returned("None"))]
    /\ started' = started + 1
    /\ UNCHANGED <<token, session, close_session, created>>

\* set_smart_mode with a smart_mode for which the method raises before _put.
SetSmartModeRaises(t, op, args) ==
    /\ CanStart(t)
    /\ op = "set_smart_mode"
    /\ SmartModeRaises(args)
    /\ calls' = [calls EXCEPT ![t] =
            Finish(NewCall("set_smart_mode", args), Raised("AttributeError"))]
    /\ started' = started + 1
    /\ UNCHANGED <<token, session, close_session, created, closed>>

\* mutant: every request makes a session of its own
NeedsSession_always(sess) == TRUE

\* _request: `if self.session is None`
NeedsSession(sess) == sess = NONE

\* A method that reaches _request: from the call to the first suspension in
\* self.session.request.  A closed session raises RuntimeError there.
SendRequest(t, op, args) ==
    /\ CanStart(t)
    /\ op \in AllOps \ CloseOps
    /\ op = "set_smart_mode" => ~SmartModeRaises(args)
    /\ LET make == NeedsSession(session)
           sess == IF make THEN NewSession(created + 1) ELSE session
           call == [NewCall(op, args) EXCEPT
                        !.req = {Request(op, args, token, sess)}, !.nreq = 1]
       IN /\ session' = sess
          /\ created' = IF make THEN created + 1 ELSE created
          /\ close_session' = IF make THEN TRUE ELSE close_session
          /\ calls' = [calls EXCEPT ![t] =
                IF sess \in closed
                THEN Finish(call, Raised("RuntimeError"))
                ELSE [call EXCEPT !.pc = "awaiting"]]
    /\ started' = started + 1
    /\ UNCHANGED <<token, closed>>

\* self.session.request returns: status and headers are in, the timeout scope
\* is left, and the coroutine suspends in response.text().
Respond(t, body) ==
    /\ calls[t].pc = "awaiting"
    /\ body \in BodiesOf(calls[t].op)
    /\ calls' = [calls EXCEPT ![t] =
            [calls[t] EXCEPT !.pc = "reading", !.args = NoArgs, !.req = NoRequest,
                             !.resp = {body}]]
    /\ UNCHANGED <<token, session, close_session, created, closed, started>>

\* The deadline of asyncio.timeout passes inside the scope: TimeoutError.
Timeout(t) ==
    /\ calls[t].pc = "awaiting"
    /\ calls' = [calls EXCEPT ![t] =
            Finish([calls[t] EXCEPT !.elapsed = TRUE], Raised("TimeoutError"))]
    /\ UNCHANGED <<token, session, close_session, created, closed, started>>

\* request_timeout seconds have passed since the request began, but the scope
\* was left when the headers arrived: nothing is scheduled to fire.
Elapse(t) ==
    /\ calls[t].pc = "reading"
    /\ ~calls[t].elapsed
    /\ calls' = [calls EXCEPT ![t].elapsed = TRUE]
    /\ UNCHANGED <<token, session, close_session, created, closed, started>>

\* The transport fails while the call is suspended.
TransportError(t) ==
    /\ InFlight(t)
    /\ calls' = [calls EXCEPT ![t] = Finish(calls[t], Raised("ClientError"))]
    /\ UNCHANGED <<token, session, close_session, created, closed, started>>

\* mutant: a cancelled call tears the session down on its way out
Cancel_closes_session(t) ==
    /\ InFlight(t)
    /\ calls' = [calls EXCEPT ![t] = Finish(calls[t], Raised("CancelledError"))]
    /\ closed' = closed \cup {session}
    /\ UNCHANGED <<token, session, close_session, created, started>>

\* The caller cancels the task while the call is suspended: CancelledError is
\* raised at the await and no handler of the client runs.
Cancel(t) ==
    /\ InFlight(t)
    /\ calls' = [calls EXCEPT ![t] = Finish(calls[t], Raised("CancelledError"))]
    /\ UNCHANGED <<token, session, close_session, created, closed, started>>

\* mutant: login clears the token before it looks at the response
TokenAfter_cleared(tok, op, body, r) ==
    IF op = "login" THEN (IF r.outcome = "ok" THEN r.result ELSE NONE) ELSE tok

\* self.token after the method has handled the body: only login assigns it,
\* and only once orjson.loads(result)["token"] has been evaluated.
TokenAfter(tok, op, body, r) ==
    IF op = "login" /\ r.outcome = "ok" THEN r.result ELSE tok

\* response.text() returns and the method decodes the text.
ReadBody(t, body) ==
    /\ calls[t].pc = "reading"
    /\ calls[t].resp = {body}
    /\ LET r == Decode(calls[t].op, body)
       IN /\ calls' = [calls EXCEPT ![t] = Finish(calls[t], r)]
          /\ token' = TokenAfter(token, calls[t].op, body, r)
    /\ UNCHANGED <<session, close_session, created, closed, started>>

\* The task that awaited the call takes what it returned or raised and goes on.
Return(t) ==
    /\ calls[t].pc = "done"
    /\ calls' = [calls EXCEPT ![t] = Idle]
    /\ UNCHANGED <<token, session, close_session, created, closed, started>>

AllBodies == UNION {BodiesOf(op) : op \in AllOps}

OpsOf(t) ==
    IF t = "t1" THEN AllOps ELSE {"login", "get_batteries", "close"}

Next ==
    \/ \E t \in Tasks : \E op \in OpsOf(t) : Close(t, op)
    \/ \E t \in Tasks : \E op \in OpsOf(t) : \E args \in ArgsOf(op) :
            SetSmartModeRaises(t, op, args)
    \/ \E t \in Tasks : \E op \in OpsOf(t) : \E args \in ArgsOf(op) :
            SendRequest(t, op, args)
    \/ \E t \in Tasks, body \in AllBodies : Respond(t, body)
    \/ \E t \in Tasks : Timeout(t)
    \/ \E t \in Tasks : Elapse(t)
    \/ \E t \in Tasks : TransportError(t)
    \/ \E t \in Tasks : Cancel(t)
    \/ \E t \in Tasks, body \in AllBodies : ReadBody(t, body)
    \/ \E t \in Tasks : Return(t)

Spec == Init /\ [][Next]_vars

\* ------------------------------------------------------------ steps
\* Task t starts a call in this step.
Starts(t) == calls[t].pc = "idle" /\ calls'[t].pc # "idle"

\* Task t's call hands its request to the session in this step and suspends.
Hands(t) == calls[t].pc = "idle" /\ calls'[t].pc = "awaiting"

\* Task t's login returns in this step.
LoginReturns(t) ==
    /\ calls[t].pc = "reading"
    /\ calls[t].op = "login"
    /\ calls'[t].pc = "done"
    /\ calls'[t].outcome = "ok"

\* Task t's suspended call ends in this step.
Ends(t) == InFlight(t) /\ calls'[t].pc = "done"

TheReq(c) == CHOOSE r \in c.req : TRUE
TheResp(c) == CHOOSE b \in c.resp : TRUE

\* ------------------------------------------------------------ C1
\* C1 as stated: a request carries `Authorization: Bearer <token>` if and
\* only if a token is set (is not None) when the request is built, and
\* User-Agent is on every request.
C1_AuthIffTokenSet ==
    [][\A t \in Tasks : Hands(t) =>
        LET h == TheReq(calls'[t]).headers
        IN /\ "User-Agent" \in DOMAIN h
           /\ ("Authorization" \in DOMAIN h) <=> (token # NONE)]_vars

\* C1 as amended: a request carries the Authorization header if and only if
\* the token held when the request is built is neither None nor empty, the
\* header is then `Bearer <that token>`, a login that returns T stores T (so
\* requests built while T is stored carry it), and User-Agent
\* `python-zinvolt/<VERSION>` is on every request.
C1_AuthIffTokenNonEmpty ==
    [][\A t \in Tasks :
        /\ Hands(t) =>
            LET h == TheReq(calls'[t]).headers
            IN /\ "User-Agent" \in DOMAIN h
               /\ h["User-Agent"] = "python-zinvolt/" \o VERSION
               /\ ("Authorization" \in DOMAIN h) <=> (token # NONE /\ token # "")
               /\ ("Authorization" \in DOMAIN h) =>
                    h["Authorization"] = "Bearer " \o token
        /\ LoginReturns(t) => token' = calls'[t].result]_vars

\* A request of another operation is pending with the token a login returned.
C1_Witness ==
    \E t \in Tasks :
        /\ calls[t].pc = "awaiting"
        /\ calls[t].op # "login"
        /\ token = "T"
        /\ "Authorization" \in DOMAIN TheReq(calls[t]).headers
        /\ TheReq(calls[t]).headers["Authorization"] = "Bearer T"

\* ------------------------------------------------------------ C2
\* C2: a call makes at most one request, and a call during which
\* request_timeout passed before the response was complete, and which nothing
\* else aborted, fails with a timeout error.
C2_TimeoutBoundsWholeResponse ==
    \A t \in Tasks :
        /\ calls[t].nreq <= 1
        /\ (/\ calls[t].pc = "done"
            /\ calls[t].elapsed
            /\ calls[t].outcome \notin {"ClientError", "CancelledError"})
            => calls[t].outcome = "TimeoutError"

\* ------------------------------------------------------------ C3
\* C3: close() and __aexit__() never raise, however often they are called;
\* the caller's session is never closed by the client; a close with a session
\* the client created closes that session, and changes nothing else.
C3_CloseIdempotentOwnership ==
    /\ [](\A t \in Tasks :
            (calls[t].op \in CloseOps /\ calls[t].pc # "idle") =>
                (calls[t].pc = "done" /\ calls[t].outcome = "ok"))
    /\ [](CALLER_SESSION \notin closed)
    /\ [][\A t \in Tasks : (Starts(t) /\ calls'[t].op \in CloseOps) =>
            /\ (session \notin {NONE, CALLER_SESSION}) => session \in closed'
            /\ closed' \subseteq closed \cup {session}
            /\ UNCHANGED <<token, session, close_session, created>>]_vars

\* Both tasks have closed a client whose session the client created.
C3_Witness ==
    /\ \A t \in Tasks :
        calls[t].op \in CloseOps /\ calls[t].pc = "done" /\ calls[t].outcome = "ok"
    /\ created = 1
    /\ session \in closed

\* ------------------------------------------------------------ C4
\* C4: set_smart_mode makes one PUT to
\* system/{battery_id}/operation/switch-smart-mode, with body {"mode": v} for a
\* SmartMode member v and {"mode": "CUSTOM", "custom_mode_id": s} for any
\* other string s, and neither variant raises.
C4_SetSmartModeBody ==
    \A t \in Tasks : calls[t].op = "set_smart_mode" =>
        /\ calls[t].pc = "awaiting" =>
            /\ TheReq(calls[t]).method = "PUT"
            /\ TheReq(calls[t]).url =
                "https://" \o HOST \o "/api/public/v2/system/"
                    \o calls[t].args.battery_id \o "/operation/switch-smart-mode"
            /\ TheReq(calls[t]).json =
                IF calls[t].args.is_enum
                THEN {[mode |-> calls[t].args.value]}
                ELSE {[mode |-> "CUSTOM", custom_mode_id |-> calls[t].args.value]}
        /\ calls[t].pc = "done" =>
            /\ calls[t].nreq = 1
            /\ calls[t].outcome # "AttributeError"

C6_ReadRequests ==
    \A t \in Tasks : (calls[t].op \in ReadOps /\ calls[t].pc = "awaiting") =>
        /\ calls[t].nreq = 1
        /\ TheReq(calls[t]).method = "GET"
        /\ TheReq(calls[t]).json = {}
        /\ TheReq(calls[t]).url = TEST_URL \o Uri(calls[t].op, calls[t].args)

\* ------------------------------------------------------------ C7
\* C7: when is_battery_online gets its response, it returns true exactly for
\* a decoded response whose onlineStatus is "ONLINE", false for "OFFLINE",
\* and raises a decode error for any other literal and for a missing field.
C7_OnlineIffOnlineLiteral ==
    [][\A t \in Tasks :
        (/\ calls[t].pc = "reading"
         /\ calls[t].op = "is_battery_online"
         /\ calls'[t].pc = "done"
         /\ calls'[t].outcome \notin {"ClientError", "CancelledError"}) =>
            LET b == TheResp(calls[t])
                c == calls'[t]
                whole == b.wellformed /\ b.sn # MISSING
            IN /\ (c.outcome = "ok" /\ c.result = "True") => b.onlineStatus = "ONLINE"
               /\ (c.outcome = "ok" /\ c.result = "False") => b.onlineStatus = "OFFLINE"
               /\ (whole /\ b.onlineStatus = "ONLINE") =>
                    (c.outcome = "ok" /\ c.result = "True")
               /\ (whole /\ b.onlineStatus = "OFFLINE") =>
                    (c.outcome = "ok" /\ c.result = "False")
               /\ (b.onlineStatus \notin {"ONLINE", "OFFLINE"}) =>
                    c.outcome = "DecodeError"
               /\ c.outcome \in {"ok", "DecodeError"}]_vars

\* is_battery_online has returned true.
C7_Witness ==
    \E t \in Tasks :
        /\ calls[t].op = "is_battery_online"
        /\ calls[t].pc = "done"
        /\ calls[t].outcome = "ok"
        /\ calls[t].result = "True"

\* ------------------------------------------------------------ C8
\* C8: a step in which one suspended call is cancelled or times out changes
\* no other task's call and leaves the session, the sessions closed, the
\* ownership flag and the token as they were.
C8_CancelIsLocal ==
    [][\A t \in Tasks :
        (Ends(t) /\ calls'[t].outcome \in {"CancelledError", "TimeoutError"}) =>
            /\ \A u \in Tasks \ {t} : calls'[u] = calls[u]
            /\ UNCHANGED <<token, session, close_session, created, closed>>]_vars

\* One task's call was cancelled while the other's is suspended on the open
\* session.
C8_Witness ==
    \E t \in Tasks : \E u \in Tasks \ {t} :
        /\ calls[t].pc = "done"
        /\ calls[t].outcome = "CancelledError"
        /\ calls[u].pc = "reading"
        /\ session \notin closed

\* ------------------------------------------------------------ C9
\* C9: the client makes at most one session, makes it on the first request of
\* a client that has none, never replaces a session it holds, sends every
\* request through the session it holds, sets the ownership flag exactly when
\* it has made the session, and closes the session it made when close() runs.
C9_OneSession ==
    /\ [](/\ created <= 1
          /\ session = NONE => created = 0
          /\ session = CALLER_SESSION => created = 0
          /\ close_session <=> created >= 1
          /\ \A t \in Tasks :
                calls[t].pc = "awaiting" => TheReq(calls[t]).session = session)
    /\ [][/\ session # NONE => session' = session
          /\ \A t \in Tasks :
                /\ (Starts(t) /\ calls'[t].nreq = 1) => session' # NONE
                /\ (Starts(t) /\ calls'[t].op \in CloseOps /\ created >= 1) =>
                        session \in closed']_vars

\* Two calls are suspended at once on the one session the client made.
C9_Witness ==
    /\ created = 1
    /\ close_session
    /\ \A t \in Tasks :
        calls[t].pc = "awaiting" /\ TheReq(calls[t]).session = NewSession(1)

\* ------------------------------------------------------------ C10
\* C10: the token changes only in a step in which a login returns, and then
\* to what that login returns; a call that ends in any other way leaves it.
C10_TokenOnlyByLogin ==
    [][/\ token' # token =>
            \E t \in Tasks : LoginReturns(t) /\ token' = calls'[t].result
       /\ \A t \in Tasks :
            (Ends(t) /\ calls'[t].outcome # "ok") => token' = token
       /\ \A t \in Tasks :
            (Starts(t) /\ calls'[t].pc = "done") => token' = token]_vars

\* A login failed on a response without the token key and the token the
\* client was constructed with is still stored.
C10_Witness ==
    \E t \in Tasks :
        /\ calls[t].op = "login"
        /\ calls[t].pc = "done"
        /\ calls[t].outcome = "KeyError"
        /\ token = "token"

====
